---- MODULE Spec2Model ----
(***************************************************************************)
(* Model of src/src/index.ts: the AnimationIterator class (timing state,   *)
(* listener registry, self-rescheduling tick, one-shot completion promise) *)
(* together with the host it runs on (the wall clock and the FIFO queue of *)
(* requested animation-frame callbacks).                                   *)
(*                                                                         *)
(* Numbers.  Virtual time is counted in units of 1/Den, progress in units  *)
(* of 1/(Den*Den), so that both update functions used here (time and       *)
(* time**2) are exact on integers; 1.0 is One.  Wall-clock time is in      *)
(* milliseconds.  Array indices are 1-based: JavaScript slot i is i+1.     *)
(* A listener slot holds 0 when it is a hole (deleted or never set) and    *)
(* the identity of the subscribed callback otherwise; identities are       *)
(* handed out in subscription order.                                       *)
(***************************************************************************)
EXTENDS Integers, Sequences, FiniteSets, TLC

\* ---------------------------------------------------------------- bounds
MaxSubs == 3
MaxStarts == 2
MaxElapsed == 4
MaxStep == 1
MaxPad == 1

\* ------------------------------------------------------ program constants
Den == 180
One == Den * Den
DEFAULT_STEP_INTERVAL == 1
DEFAULT_FRAME_RATE == 60
DEFAULT_PROGRESS == 0
DEFAULT_TIME == 0
DEFAULT_LAST_TICK == 0
DEFAULT_FUNC == "default"

\* An omitted (undefined) field is <<>>, a supplied one <<value>>.
Undefined == <<>>

ArgsSet ==
  { [rate |-> <<500>>, interval |-> <<90>>,  func |-> Undefined, function |-> Undefined],
    [rate |-> <<500>>, interval |-> <<120>>, func |-> <<"demo">>, function |-> Undefined] }

ArgsWide == {
  [rate |-> Undefined, interval |-> Undefined, func |-> Undefined,
   function |-> Undefined],
  [rate |-> <<500>>, interval |-> <<60>>, func |-> Undefined,
   function |-> <<"default">>] }

VARIABLES
  args,         \* the constructor's argument, captured by the reset closure
  interval, rate, func, progress, time, lastTick, listeners,
  now,          \* the wall clock, Date.now()
  frames,       \* requested frame callbacks, FIFO; each holds its initialState
  closures,     \* unsubscribe closures handed out: captured index, owner, called
  promises,     \* one per start(): number of resolve() calls, fulfilment value
  pc,           \* "idle", or "notify" while next() is inside listeners.forEach
  k, passLen,   \* forEach's cursor and the length it read when it began
  passArr,      \* the array forEach iterates once this.listeners was replaced
  detached,     \* this.listeners is no longer the array forEach iterates
  nextState,    \* next()'s local nextState (after the clamp)
  rawProgress,  \* what the update function returned, before the clamp
  passInit,     \* next()'s parameter initialState
  passBegin,    \* history: the registry when the pass began
  passLog,      \* history: callbacks invoked in this pass, in order
  passCleared,  \* history: slots cleared by a closure before being visited
  passNew,      \* history: callbacks subscribed during this pass
  lastAccept,   \* history: wall-clock time of the last accepted tick
  lastProgress, \* history: progress produced by the last accepted tick
  resetSince,   \* history: reset() ran since the last accepted tick
  lastOp,       \* history: the operation of the last step (and its closure)
  color,        \* the string handed to extractColorAsRgb, as characters
  result        \* what that call did: nothing yet, a record, or a throw

objVars == <<interval, rate, func, progress, time, lastTick>>
passVars == <<pc, k, passLen, nextState, rawProgress, passInit>>
histVars == <<passBegin, passLog, passCleared, passNew>>
callVars == <<color, result>>
vars == <<args, callVars, interval, rate, func, progress, time, lastTick, listeners,
          now, frames, closures, promises, pc, k, passLen, passArr, detached,
          nextState, rawProgress, passInit, passBegin, passLog, passCleared,
          passNew, lastAccept, lastProgress, resetSince, lastOp>>

\* ------------------------------------------------------------ pure helpers
conditionalDefaultAlways(value, defaultValue) == defaultValue
conditionalDefault(value, defaultValue) ==
  IF value = Undefined THEN defaultValue ELSE value[1]

\* args.func || args.function
FuncArg(a) == IF a.func # Undefined THEN a.func ELSE a.function

\* The update functions: DEFAULT_FUNC (progress: time) and the demo's
\* (progress: time ** 2); styles are abstracted to what they depend on.
ApplyFunc(f, initialState, t) ==
  IF f = "default"
  THEN [styles |-> <<>>, progress |-> t * Den]
  ELSE [styles |-> <<initialState, t>>, progress |-> t * t]

ClampNoop(s) == s
Clamp(s) == IF s.progress >= One THEN [s EXCEPT !.progress = One] ELSE s

StepTimeBack(t, i) == t - i
\* this.time += this.interval
StepTime(t, i) == t + i

TickAcceptedAlways(t, last, r) == TRUE
\* Date.now() - this.lastTick >= 1000 / this.rate   (rate > 0)
TickAccepted(t, last, r) == (t - last) * r >= 1000

FreeSlotSkipLast(arr) ==
  IF \E i \in 1..(Len(arr)-1) : arr[i] = 0
  THEN CHOOSE i \in 1..(Len(arr)-1) : arr[i] = 0 /\ \A j \in 1..(i-1) : arr[j] # 0
  ELSE 0
\* lowest index whose slot is a hole, 0 when every slot is occupied
FreeSlot(arr) ==
  IF \E i \in 1..Len(arr) : arr[i] = 0
  THEN CHOOSE i \in 1..Len(arr) : arr[i] = 0 /\ \A j \in 1..(i-1) : arr[j] # 0
  ELSE 0

SubscribeIndexOff(arr) == IF FreeSlot(arr) # 0 THEN FreeSlot(arr) ELSE Len(arr) + 2
\* the index the returned closure captures: i of the loop, or
\* this.listeners.length read before the push
SubscribeIndex(arr) == IF FreeSlot(arr) # 0 THEN FreeSlot(arr) ELSE Len(arr) + 1

SubscribeArr(arr, id) ==
  IF FreeSlot(arr) # 0 THEN [arr EXCEPT ![FreeSlot(arr)] = id] ELSE Append(arr, id)

DeleteSlotSplice(arr, i) ==
  IF i \in 1..Len(arr) THEN [j \in 1..(Len(arr)-1) |-> IF j < i THEN arr[j] ELSE arr[j+1]]
  ELSE arr
\* delete arr[i]: the slot becomes a hole, the length and the others stay
DeleteSlot(arr, i) == IF i \in 1..Len(arr) THEN [arr EXCEPT ![i] = 0] ELSE arr

OneShotFiresAlways(s) == TRUE
\* the completion listener's test  state.progress === 1.0
OneShotFires(s) == s.progress = One

requestAnimationFrameDrop(queue, initialState) == queue
\* window.requestAnimationFrame(() => this.next(initialState)): the host
\* queues the callback behind the ones already requested
requestAnimationFrame(queue, initialState) == Append(queue, initialState)

\* arr[i] as forEach sees it: an absent index reads as a hole
SlotAt(arr, i) == IF i \in 1..Len(arr) THEN arr[i] ELSE 0

\* the array listeners.forEach is iterating
IterArr == IF detached THEN passArr ELSE listeners

NoState == [styles |-> <<>>, progress |-> 0]

\* ------------------------------------------------------- extractColorAsRgb
\* Strings are sequences of one-character strings.
Digits == <<"0", "1", "2", "3", "4", "5", "6", "7", "8", "9">>
HexDigits == Digits \o <<"a", "b", "c", "d", "e", "f">>
UpperCase == <<"A", "B", "C", "D", "E", "F", "G", "R">>
LowerCase == <<"a", "b", "c", "d", "e", "f", "g", "r">>
WhiteSpace == {" ", "\t"}
NaN == -1

Range(seq) == {seq[i] : i \in 1..Len(seq)}
IndexIn(seq, c) == CHOOSE i \in 1..Len(seq) : seq[i] = c

\* String.prototype.toLowerCase, one character
LowerChar(c) == IF c \in Range(UpperCase) THEN LowerCase[IndexIn(UpperCase, c)] ELSE c
toLowerCase(str) == [i \in 1..Len(str) |-> LowerChar(str[i])]

\* String.prototype.trim
trim(str) ==
  LET inked == {i \in 1..Len(str) : str[i] \notin WhiteSpace}
  IN IF inked = {} THEN <<>>
     ELSE SubSeq(str, CHOOSE i \in inked : \A j \in inked : i <= j,
                      CHOOSE i \in inked : \A j \in inked : j <= i)

\* String.prototype.substring(from, to), 0-based, end excluded, clamped
substring(str, from, to) ==
  SubSeq(str, (IF from > Len(str) THEN Len(str) ELSE from) + 1,
              IF to > Len(str) THEN Len(str) ELSE to)

\* value of a string of digits in the given radix, digits being the radix's
\* digit characters in order
RECURSIVE DigitsValue(_, _)
DigitsValue(str, digits) ==
  IF str = <<>> THEN 0
  ELSE DigitsValue(SubSeq(str, 1, Len(str) - 1), digits) * Len(digits)
       + IndexIn(digits, str[Len(str)]) - 1

\* parseInt(str, radix) for strings without sign or 0x prefix: skips leading
\* white space, reads the longest run of digits, NaN when there is none
parseInt(str, digits) ==
  LET low == toLowerCase(str)
      from == IF \E i \in 1..Len(low) : low[i] \notin WhiteSpace
              THEN CHOOSE i \in 1..Len(low) :
                     low[i] \notin WhiteSpace /\ \A j \in 1..(i-1) : low[j] \in WhiteSpace
              ELSE Len(low) + 1
      stops == {i \in from..Len(low) : low[i] \notin Range(digits)}
      upto == IF stops = {} THEN Len(low)
              ELSE (CHOOSE i \in stops : \A j \in stops : i <= j) - 1
  IN IF upto < from THEN NaN ELSE DigitsValue(SubSeq(low, from, upto), digits)

NotCalled == [kind |-> "pending", r |-> 0, g |-> 0, b |-> 0, a |-> Undefined]
\* throw new Error("Format not recognized (must be rgb, rgba, hex)")
FormatError == [kind |-> "error", r |-> 0, g |-> 0, b |-> 0, a |-> Undefined]

\* Matching one element of the two regular expressions at position p of str;
\* the result is the position after the element, 0 when it does not match.
\* No element can match where the one before it could have stopped earlier
\* (white space is followed by a comma, a digit or a parenthesis, digits by
\* a non-digit), so the longest match of each element is the only one.
Lit(str, p, c) == IF p # 0 /\ p <= Len(str) /\ str[p] = c THEN p + 1 ELSE 0
\* \s?
OptSpace(str, p) ==
  IF p # 0 /\ p <= Len(str) /\ str[p] \in WhiteSpace THEN p + 1 ELSE p
IsDigitAt(str, p) == p <= Len(str) /\ str[p] \in Range(Digits)
\* ([0-9]{1,3})
Group(str, p) ==
  IF p = 0 \/ ~IsDigitAt(str, p) THEN 0
  ELSE IF ~IsDigitAt(str, p + 1) THEN p + 1
  ELSE IF ~IsDigitAt(str, p + 2) THEN p + 2
  ELSE p + 3
\* ,\s?   and   \s?,\s?
Comma(str, p) == OptSpace(str, Lit(str, p, ","))
SpacedComma(str, p) == Comma(str, OptSpace(str, p))

\* rgb\s?\(([0-9]{1,3})\s?,\s?([0-9]{1,3})\s?,\s?([0-9]{1,3})  at p: where
\* the three groups start and end
RgbHead(str, p) ==
  LET s1 == Lit(str, OptSpace(str, Lit(str, Lit(str, Lit(str, p, "r"), "g"), "b")), "(")
      e1 == Group(str, s1)
      s2 == SpacedComma(str, e1)
      e2 == Group(str, s2)
      s3 == SpacedComma(str, e2)
      e3 == Group(str, s3)
  IN [s1 |-> s1, e1 |-> e1, s2 |-> s2, e2 |-> e2, s3 |-> s3, e3 |-> e3]

Text(str, from, to) == SubSeq(str, from, to - 1)

\* the first regular expression (line 14) matched at p
RgbaAt(str, p) ==
  LET h == RgbHead(str, p)
      s4 == Comma(str, h.e3)
      e4 == Group(str, s4)
  IN IF Lit(str, OptSpace(str, e4), ")") = 0 THEN NotCalled
     ELSE [kind |-> "record",
           r |-> parseInt(Text(str, h.s1, h.e1), Digits),
           g |-> parseInt(Text(str, h.s2, h.e2), Digits),
           b |-> parseInt(Text(str, h.s3, h.e3), Digits),
           a |-> <<parseInt(Text(str, s4, e4), Digits)>>]

\* the second regular expression (line 29) matched at p
RgbAt(str, p) ==
  LET h == RgbHead(str, p)
  IN IF Lit(str, OptSpace(str, h.e3), ")") = 0 THEN NotCalled
     ELSE [kind |-> "record",
           r |-> parseInt(Text(str, h.s1, h.e1), Digits),
           g |-> parseInt(Text(str, h.s2, h.e2), Digits),
           b |-> parseInt(Text(str, h.s3, h.e3), Digits),
           a |-> Undefined]

\* String.prototype.replace with a regular expression without the g flag
\* calls the function for the leftmost match only
Leftmost(S) == CHOOSE p \in S : \A q \in S : p <= q

\* /^#[a-f0-9]{6}$/
IsHex(str) ==
  /\ Len(str) = 7 /\ str[1] = "#"
  /\ \A i \in 2..7 : str[i] \in Range(HexDigits)

extractColorAsRgb(c) ==
  LET formattedColor == trim(toLowerCase(c))
      rgbaAt == {p \in 1..Len(formattedColor) : RgbaAt(formattedColor, p) # NotCalled}
      rgbAt == {p \in 1..Len(formattedColor) : RgbAt(formattedColor, p) # NotCalled}
  IN IF rgbaAt # {} THEN RgbaAt(formattedColor, Leftmost(rgbaAt))
     ELSE IF rgbAt # {} THEN RgbAt(formattedColor, Leftmost(rgbAt))
     ELSE IF IsHex(formattedColor)
          THEN [kind |-> "record",
                r |-> parseInt(substring(c, 1, 3), HexDigits),
                g |-> parseInt(substring(c, 3, 5), HexDigits),
                b |-> parseInt(substring(c, 5, 7), HexDigits),
                a |-> Undefined]
     ELSE FormatError

\* ------------------------------------------------------------------- Init
\* new AnimationIterator(args) for one of the given configurations
InitOf(configs) ==
  /\ args \in configs
  /\ interval = conditionalDefault(args.interval, DEFAULT_STEP_INTERVAL)
  /\ rate = conditionalDefault(args.rate, DEFAULT_FRAME_RATE)
  /\ func = conditionalDefault(FuncArg(args), DEFAULT_FUNC)
  /\ progress = DEFAULT_PROGRESS
  /\ time = DEFAULT_TIME
  /\ lastTick = DEFAULT_LAST_TICK
  /\ listeners = <<>>
  /\ now = 1000
  /\ frames = <<>>
  /\ closures = <<>>
  /\ promises = <<>>
  /\ pc = "idle" /\ k = 0 /\ passLen = 0 /\ passArr = <<>> /\ detached = FALSE
  /\ nextState = NoState /\ rawProgress = 0 /\ passInit = 0
  /\ passBegin = <<>> /\ passLog = <<>> /\ passCleared = {} /\ passNew = {}
  /\ lastAccept = -1 /\ lastProgress = -1 /\ resetSince = FALSE
  /\ lastOp = <<"new", 0>>

Init == InitOf(ArgsSet) /\ color = <<>> /\ result = NotCalled

\* constructions that leave fields out: new AnimationIterator({}) and one
\* that passes (initialState, time) => ({styles: {}, progress: time}) under
\* the name `function` and takes three ticks
InitWide == InitOf(ArgsWide) /\ color = <<>> /\ result = NotCalled

\* ------------------------------------------------- the object's operations
\* Each operation is written once, over opVars, and is used both when the
\* caller invokes it between frames and when a listener callback invokes it
\* from inside a notification pass.
opVars == <<interval, rate, func, progress, time, lastTick, listeners,
            closures, passArr, detached, resetSince>>

\* this.reset, the closure built by the constructor
resetFields ==
  /\ interval' = conditionalDefault(args.interval, DEFAULT_STEP_INTERVAL)
  /\ rate' = conditionalDefault(args.rate, DEFAULT_FRAME_RATE)
  /\ func' = conditionalDefault(FuncArg(args), DEFAULT_FUNC)
  /\ progress' = DEFAULT_PROGRESS
  /\ time' = DEFAULT_TIME
  /\ lastTick' = DEFAULT_LAST_TICK
  /\ resetSince' = TRUE

\* this.listeners = []: a new array; a forEach in progress keeps the old one
clearListenersKeep ==
  /\ listeners' = listeners
  /\ UNCHANGED <<passArr, detached>>
clearListeners ==
  /\ listeners' = <<>>
  /\ IF pc = "notify" /\ ~detached
     THEN passArr' = listeners /\ detached' = TRUE
     ELSE UNCHANGED <<passArr, detached>>

resetOp ==
  /\ resetFields
  /\ UNCHANGED <<listeners, closures, passArr, detached>>

resetListenersOp ==
  /\ clearListeners
  /\ UNCHANGED <<objVars, closures, resetSince>>

resetAllOp ==
  /\ resetFields
  /\ clearListeners
  /\ UNCHANGED closures

\* subscribe(callback); owner is 0 for a caller's callback and the number of
\* the promise for start()'s completion listener
subscribeOp(owner) ==
  /\ listeners' = SubscribeArr(listeners, Len(closures) + 1)
  /\ closures' = Append(closures, [index |-> SubscribeIndex(listeners),
                                   owner |-> owner, calls |-> 0])
  /\ UNCHANGED <<objVars, passArr, detached, resetSince>>

\* the closure returned by subscribe:  delete this.listeners[index]
unsubscribeOp(c) ==
  /\ listeners' = DeleteSlot(listeners, closures[c].index)
  /\ closures' = [closures EXCEPT ![c].calls = 1]
  /\ UNCHANGED <<objVars, passArr, detached, resetSince>>

UserClosures == {c \in 1..Len(closures) : closures[c].owner = 0}

\* ------------------------------------------- operations called by the user
restVars == <<args, callVars, now, promises, passVars, histVars, lastAccept,
             lastProgress>>

Subscribe ==
  /\ pc = "idle" /\ Len(closures) < MaxSubs
  /\ subscribeOp(0)
  /\ lastOp' = <<"subscribe", 0>>
  /\ UNCHANGED <<restVars, frames>>

Unsubscribe(c) ==
  /\ pc = "idle"
  /\ unsubscribeOp(c)
  /\ lastOp' = <<"unsubscribe", c>>
  /\ UNCHANGED <<restVars, frames>>

Reset ==
  /\ pc = "idle"
  /\ resetOp
  /\ lastOp' = <<"reset", 0>>
  /\ UNCHANGED <<restVars, frames>>

ResetListeners ==
  /\ pc = "idle"
  /\ resetListenersOp
  /\ lastOp' = <<"resetListeners", 0>>
  /\ UNCHANGED <<restVars, frames>>

ResetAll ==
  /\ pc = "idle"
  /\ resetAllOp
  /\ lastOp' = <<"resetAll", 0>>
  /\ UNCHANGED <<restVars, frames>>

\* start(initialState): request the first frame, subscribe the completion
\* listener.  The n-th start passes n as its initialState.
startOp ==
  /\ frames' = requestAnimationFrame(frames, Len(promises) + 1)
  /\ subscribeOp(Len(promises) + 1)
  /\ promises' = Append(promises, [resolves |-> 0, value |-> -1])
  /\ lastOp' = <<"start", 0>>
  /\ UNCHANGED <<args, callVars, now, passVars, histVars, lastAccept, lastProgress>>

Start ==
  /\ pc = "idle" /\ Len(promises) < MaxStarts /\ Len(closures) < MaxSubs
  /\ startOp

\* ------------------------------------------------------------------ next()
\* The host runs the oldest requested frame callback, d milliseconds after
\* the last step that read the clock.  The two Date.now() calls of one
\* next() are adjacent statements and read the same millisecond t.
next ==
  /\ pc = "idle" /\ frames # <<>>
  /\ \E d \in 0..MaxStep :
       LET t == now + d
           s == Head(frames)
       IN /\ t <= 1000 + MaxElapsed
          /\ lastOp' = <<"next", 0>>
          /\ IF TickAccepted(t, lastTick, rate)
             THEN /\ lastTick' = t
                  /\ now' = t
                  /\ time' = StepTime(time, interval)
                  /\ rawProgress' = ApplyFunc(func, s, StepTime(time, interval)).progress
                  /\ nextState' = Clamp(ApplyFunc(func, s, StepTime(time, interval)))
                  /\ progress' = Clamp(ApplyFunc(func, s, StepTime(time, interval))).progress
                  /\ frames' = Tail(frames)
                  /\ pc' = "notify" /\ k' = 1 /\ passLen' = Len(listeners)
                  /\ passInit' = s
                  /\ passBegin' = listeners /\ passLog' = <<>>
                  /\ passCleared' = {} /\ passNew' = {}
                  /\ lastAccept' = t /\ resetSince' = FALSE
                  /\ lastProgress' = Clamp(ApplyFunc(func, s, StepTime(time, interval))).progress
                  /\ UNCHANGED <<args, callVars, interval, rate, func, listeners, closures,
                                 promises, passArr, detached>>
             ELSE /\ now' = t
                  /\ frames' = requestAnimationFrame(Tail(frames), s)
                  /\ UNCHANGED <<args, callVars, opVars, promises, passVars, histVars,
                                 lastAccept, lastProgress>>

\* What the callback in slot l does when it is invoked with nextState.
\* start()'s completion listener unsubscribes itself and resolves its promise
\* when state.progress === 1.0; a caller's callback may call one operation.
CompletionCallback(l) ==
  IF OneShotFires(nextState)
  THEN /\ unsubscribeOp(l)
       /\ promises' = [promises EXCEPT ![closures[l].owner] =
                         [resolves |-> IF @.resolves >= 2 THEN 2 ELSE @.resolves + 1,
                          value |-> IF @.resolves = 0 THEN nextState.progress
                                    ELSE @.value]]
       /\ lastOp' = <<"resolve", 0>>
  ELSE /\ UNCHANGED <<opVars, promises>>
       /\ lastOp' = <<"forEach", 0>>

UserCallback(l) ==
  /\ UNCHANGED promises
  /\ \/ UNCHANGED opVars /\ lastOp' = <<"forEach", 0>>
     \/ Len(closures) < MaxSubs /\ subscribeOp(0)
          /\ lastOp' = <<"subscribe", 0>>
     \/ \E c \in UserClosures : unsubscribeOp(c) /\ lastOp' = <<"unsubscribe", c>>
     \/ resetOp /\ lastOp' = <<"reset", 0>>
     \/ resetListenersOp /\ lastOp' = <<"resetListeners", 0>>
     \/ resetAllOp /\ lastOp' = <<"resetAll", 0>>

\* One step of this.listeners.forEach: visit index k of the array it iterates.
forEachStep ==
  /\ pc = "notify" /\ k <= passLen
  /\ k' = k + 1
  /\ UNCHANGED <<args, callVars, now, frames, pc, passLen, nextState, rawProgress,
                 passInit, passBegin, lastAccept, lastProgress>>
  /\ IF SlotAt(IterArr, k) = 0
     THEN /\ UNCHANGED <<opVars, promises, passLog, passCleared, passNew>>
          /\ lastOp' = <<"forEach", 0>>
     ELSE /\ passLog' = Append(passLog, SlotAt(IterArr, k))
          /\ IF closures[SlotAt(IterArr, k)].owner # 0
             THEN CompletionCallback(SlotAt(IterArr, k))
             ELSE UserCallback(SlotAt(IterArr, k))
          /\ passCleared' = passCleared \cup
               { i \in (k+1)..passLen :
                   /\ SlotAt(IterArr, i) # 0 /\ SlotAt(IterArr, i) = passBegin[i]
                   /\ SlotAt(IF detached' THEN passArr' ELSE listeners', i) = 0 }
          /\ passNew' = passNew \cup ((Len(closures) + 1)..Len(closures'))

\* The end of next(): stop when this.progress >= 1, else request a frame.
nextFinish ==
  /\ pc = "notify" /\ k = passLen + 1
  /\ frames' = IF progress >= One THEN frames
                ELSE requestAnimationFrame(frames, passInit)
  /\ pc' = "idle" /\ k' = 0 /\ passLen' = 0
  /\ passArr' = <<>> /\ detached' = FALSE
  /\ nextState' = NoState /\ rawProgress' = 0 /\ passInit' = 0
  /\ passBegin' = <<>> /\ passLog' = <<>> /\ passCleared' = {} /\ passNew' = {}
  /\ lastOp' = <<"end", 0>>
  /\ UNCHANGED <<args, callVars, objVars, listeners, closures, resetSince, now, promises,
                 lastAccept, lastProgress>>

Next ==
  \/ Subscribe
  \/ \E c \in UserClosures : Unsubscribe(c)
  \/ Reset
  \/ ResetListeners
  \/ ResetAll
  \/ Start
  \/ next
  \/ forEachStep
  \/ nextFinish

Spec == Init /\ [][Next]_vars

SpecWide == InitWide /\ [][Next]_vars

\* ------------------------------------------------ calls of extractColorAsRgb
\* The strings the function is called with: rgb(...) and rgba(...) texts
\* with three or four numbers, hex texts and a word, each with up to MaxPad
\* characters of white space or other text before and after it.
Names == {<<"r", "g", "b">>, <<"r", "g", "b", "a">>, <<"R", "G", "B">>}
Numbers == {<<<<"1", "0">>, <<"2", "0">>, <<"3", "0">>>>,
            <<<<"1", "0">>, <<"2", "0">>, <<"3", "0">>, <<"5">>>>,
            <<<<"2", "5", "5">>, <<"0">>, <<"7">>>>,
            <<<<"1", "0", "0", "0">>, <<"2", "0">>, <<"3", "0">>>>}
Separators == {<<",">>, <<",", " ">>}
HexTexts == {<<"#", "f", "f", "0", "0", "0", "0">>,
             <<"#", "F", "F", "0", "0", "0", "0">>,
             <<"#", "0", "a", "1", "B", "2", "c">>,
             <<"#", "f", "f", "0">>}
Words == {<<"n", "o", "t", "a", "c", "o", "l", "o", "r">>}
PadChars == {" ", "x"}

RECURSIVE Join(_, _)
Join(texts, sep) ==
  IF Len(texts) = 1 THEN texts[1]
  ELSE texts[1] \o sep \o Join(Tail(texts), sep)

CallText(name, numbers, sep) == name \o <<"(">> \o Join(numbers, sep) \o <<")">>

Pads == UNION {[1..m -> PadChars] : m \in 0..MaxPad}

ColorInputs ==
  LET bodies == {CallText(n, c, sp) : n \in Names, c \in Numbers, sp \in Separators}
                  \cup HexTexts \cup Words
  IN {pre \o body \o post : pre \in Pads, body \in bodies, post \in Pads}

InitColor == InitOf(ArgsSet) /\ color \in ColorInputs /\ result = NotCalled

\* extractColorAsRgb(color) returns or throws
CallExtract ==
  /\ result = NotCalled
  /\ result' = extractColorAsRgb(color)
  /\ UNCHANGED <<args, opVars, now, frames, promises, passVars, histVars,
                 lastAccept, lastProgress, lastOp, color>>

NextColor == CallExtract

SpecColor == InitColor /\ [][NextColor]_vars

\* ------------------------------------------------ the demo's way of calling
\* examples/demo.ts: the callbacks are subscribed first and only observe the
\* state; then startAnimation awaits start() and calls reset(), again and
\* again.  Closures returned by subscribe may be called once each before the
\* first start().
CycleDone ==
  /\ pc = "idle" /\ frames = <<>> /\ promises # <<>>
  /\ promises[Len(promises)].resolves >= 1

CySubscribe == promises = <<>> /\ Subscribe

CyUnsubscribe(c) == promises = <<>> /\ closures[c].calls = 0 /\ Unsubscribe(c)

CyStart ==
  /\ pc = "idle" /\ frames = <<>> /\ Len(promises) < MaxStarts
  /\ promises = <<>> \/ (CycleDone /\ lastOp = <<"reset", 0>>)
  /\ startOp

CyReset == CycleDone /\ lastOp # <<"reset", 0>> /\ Reset

CyForEach == forEachStep /\ lastOp' \in {<<"forEach", 0>>, <<"resolve", 0>>}

NextCycles ==
  \/ CySubscribe
  \/ \E c \in UserClosures : CyUnsubscribe(c)
  \/ CyStart
  \/ CyReset
  \/ next
  \/ CyForEach
  \/ nextFinish

SpecCycles == Init /\ [][NextCycles]_vars

TypeOK ==
  /\ pc \in {"idle", "notify"}
  /\ progress \in 0..One
  /\ now \in 1000..(1000 + MaxElapsed)

\* ============================================================== properties
Promises == 1..Len(promises)
InPass == pc = "notify"
PassDone == pc = "notify" /\ k = passLen + 1
Fresh ==
  /\ interval = conditionalDefault(args.interval, DEFAULT_STEP_INTERVAL)
  /\ rate = conditionalDefault(args.rate, DEFAULT_FRAME_RATE)
  /\ func = conditionalDefault(FuncArg(args), DEFAULT_FUNC)
  /\ progress = 0 /\ time = 0 /\ lastTick = 0
  /\ listeners = <<>>

\* C1: the completion listener of a start() resolves that start's promise at
\* most once, and only with a state whose progress is exactly 1.0.
Thm_C1 ==
  \A p \in Promises :
    /\ promises[p].resolves <= 1
    /\ promises[p].resolves = 1 => promises[p].value = One

\* a promise has been fulfilled, and ticks were accepted after that
Wit_C1 ==
  \E p \in Promises :
    /\ promises[p].resolves = 1 /\ promises[p].value = One
    /\ pc = "notify" /\ lastOp[1] = "next"

\* C2: once the loop started by start() has run to its end (the completing
\* tick has been notified and no frame request is left), every promise
\* returned by start() has been fulfilled, whatever the caller did meanwhile.
Cex_C2 ==
  (pc = "idle" /\ frames = <<>>) => \A p \in Promises : promises[p].resolves >= 1

\* C3: in a notification pass the state handed to the listeners has progress
\* at most 1.0, exactly 1.0 when the update function returned 1.0 or more,
\* and the stored progress equals it before the first listener is called.
Thm_C3 ==
  InPass =>
    /\ nextState.progress <= One
    /\ rawProgress >= One => nextState.progress = One
    /\ rawProgress < One => nextState.progress = rawProgress
    /\ k = 1 => progress = nextState.progress

\* a listener was called with a state the update function overshot
Wit_C3 == InPass /\ rawProgress > One /\ passLog # <<>>

\* the time at which the next() call that made the last step read the clock
CallTime == IF pc = "notify" THEN lastAccept ELSE now

\* C4: a next() call made at time t with t - lastTick < 1000/rate changes
\* neither time, progress, lastTick nor the registry, starts no notification
\* pass and no update, and replaces the consumed frame request by exactly one
\* new request with the same initialState.
Thm_C4 ==
  [][ (pc = "idle" /\ lastOp'[1] = "next" /\ (CallTime' - lastTick) * rate < 1000)
      => /\ time' = time /\ progress' = progress /\ lastTick' = lastTick
         /\ listeners' = listeners /\ closures' = closures
         /\ pc' = "idle" /\ rawProgress' = rawProgress /\ passLog' = passLog
         /\ frames # <<>>
         /\ frames' = Append(Tail(frames), Head(frames)) ]_vars

\* a tick has just been rejected while a second request was queued behind it
Wit_C4 ==
  /\ pc = "idle" /\ lastOp[1] = "next"
  /\ (now - lastTick) * rate < 1000
  /\ Len(frames) >= 2 /\ frames[Len(frames)] # frames[1]

\* a step in which next() accepts a tick that is not the first one
AcceptsAgain == pc = "idle" /\ pc' = "notify" /\ lastAccept # -1

\* C5 as stated: any two successive accepted ticks are at least 1000/rate
\* milliseconds apart, whatever was called between them.
Cex_C5 ==
  [][ AcceptsAgain => (lastAccept' - lastAccept) * rate >= 1000 ]_vars

\* C5 amended: two successive accepted ticks with no reset() or resetAll()
\* between them are at least 1000/rate milliseconds apart.
Thm_C5 ==
  [][ (AcceptsAgain /\ ~resetSince)
        => (lastAccept' - lastAccept) * rate >= 1000 ]_vars

\* a second tick has just been accepted with nothing reset since the first
\* (time is interval times the number of ticks accepted since the last reset)
Wit_C5 ==
  /\ InPass /\ k = 1 /\ time >= 2 * interval
  /\ now = lastAccept /\ ~resetSince

\* C6: in a pass the callbacks that occupied slots when it began are invoked
\* in the order in which they were subscribed.
Cex_C6 ==
  InPass =>
    \A i, j \in 1..Len(passLog) :
      (i < j /\ passLog[i] \notin passNew /\ passLog[j] \notin passNew)
        => passLog[i] < passLog[j]

\* C7: a callback subscribed during a pass is not invoked in that pass.
Cex_C7 == InPass => \A i \in 1..Len(passLog) : passLog[i] \notin passNew

\* the callbacks of the registry at the start of the pass that the first n
\* slots must have produced: those not cleared before their slot was visited
RECURSIVE ExpectedLog(_)
ExpectedLog(n) ==
  IF n = 0 THEN <<>>
  ELSE IF passBegin[n] # 0 /\ n \notin passCleared
       THEN Append(ExpectedLog(n - 1), passBegin[n])
       ELSE ExpectedLog(n - 1)

IsOld(l) == l \notin passNew
OldLog == SelectSeq(passLog, IsOld)

\* C8: when callbacks call unsubscribe closures during a pass, a slot cleared
\* before it was visited is not invoked, and every other slot occupied when
\* the pass began is invoked exactly once, in index order.
Thm_C8 == InPass => OldLog = ExpectedLog(k - 1)

\* a pass ended in which a callback cleared a later slot and a slot after
\* the cleared one was still invoked
Wit_C8 ==
  /\ PassDone
  /\ \E i \in passCleared : \E j \in (i+1)..passLen : \E n \in 1..Len(passLog) :
       passBegin[j] # 0 /\ passLog[n] = passBegin[j]

\* C9: calling an unsubscribe closure that was already called leaves the
\* registry unchanged.
Cex_C9 ==
  [][ \A c \in 1..Len(closures) :
        (lastOp' = <<"unsubscribe", c>> /\ closures[c].calls >= 1)
          => listeners' = listeners ]_vars

\* C10 as stated: right after resetAll(), in whatever state it was called,
\* the iterator is in the state of a freshly constructed one: the fields
\* and the registry at their initial values, no frame request outstanding,
\* no notification pass under way.
Cex_C10 ==
  lastOp[1] = "resetAll" => (Fresh /\ frames = <<>> /\ pc = "idle")

\* C10 amended: right after a resetAll() called while no frame request is
\* outstanding and no pass is under way (Idle, Completed), the iterator is
\* in the state of a freshly constructed one.
Thm_C10 ==
  (lastOp[1] = "resetAll" /\ pc = "idle" /\ frames = <<>>) => Fresh

\* resetAll() was called on a completed iterator that still had listeners
Wit_C10 ==
  /\ lastOp[1] = "resetAll" /\ pc = "idle" /\ frames = <<>>
  /\ \E p \in Promises : promises[p].resolves = 1
  /\ \E c \in 1..Len(closures) : closures[c].owner = 0 /\ closures[c].calls = 0

\* C11: the end of a pass whose tick produced progress >= 1.0 requests no
\* frame, whatever the listeners did during the pass.
Cex_C11 ==
  [][ (pc = "notify" /\ pc' = "idle" /\ rawProgress >= One)
        => frames' = frames ]_vars

Holes(arr) == {j \in 1..Len(arr) : arr[j] = 0}

\* C13: subscribe puts the callback in the lowest hole when there is one
\* (the last index included) and appends otherwise, changing no other slot;
\* a call of the returned closure clears the slot of that index and nothing
\* else.
Thm_C13 ==
  [][ /\ Len(closures') = Len(closures) + 1 =>
           LET id == Len(closures')
               i  == closures'[id].index
           IN /\ i \in 1..Len(listeners') /\ listeners'[i] = id
              /\ Holes(listeners) # {} =>
                   /\ i \in Holes(listeners)
                   /\ \A j \in Holes(listeners) : i <= j
                   /\ Len(listeners') = Len(listeners)
              /\ Holes(listeners) = {} =>
                   /\ i = Len(listeners) + 1
                   /\ Len(listeners') = Len(listeners) + 1
              /\ \A j \in 1..Len(listeners) : j # i => listeners'[j] = listeners[j]
      /\ \A c \in 1..Len(closures) :
           (closures'[c].calls # closures[c].calls \/ lastOp' = <<"unsubscribe", c>>)
             => /\ Len(listeners') = Len(listeners)
                /\ \A j \in 1..Len(listeners) :
                     listeners'[j] = IF j = closures[c].index THEN 0 ELSE listeners[j]
    ]_vars

\* a subscribe has just reused the hole at the last index
Wit_C13 ==
  /\ lastOp = <<"subscribe", 0>> /\ Len(listeners) >= 2
  /\ closures[Len(closures)].index = Len(listeners)
  /\ listeners[Len(listeners)] = Len(closures)
  /\ \E c \in 1..(Len(closures)-1) :
       closures[c].index = Len(listeners) /\ closures[c].calls = 1

\* C18: with a single start(), start() leaves one frame request outstanding,
\* no operation called between ticks adds or removes one, a rejected tick
\* replaces the request it consumed, an accepted tick consumes it and the
\* end of its pass issues one again unless the tick was the completing one;
\* so one request is outstanding whenever no tick is executing, from start()
\* to the completing tick.
Thm_C18 ==
  [][ Len(promises') = 1 =>
        /\ pc' = "idle" => Len(frames') <= 1
        /\ pc' = "notify" => Len(frames') = 0
        /\ Len(promises) = 0 => Len(frames') = 1
        /\ (Len(promises) = 1 /\ pc = "idle" /\ pc' = "idle")
             => Len(frames') = Len(frames)
        /\ (pc = "idle" /\ pc' = "notify") => Len(frames') = Len(frames) - 1
        /\ (pc = "notify" /\ pc' = "idle" /\ rawProgress < One)
             => Len(frames') = 1
    ]_vars

\* mid-run, with a closure of the user called, a tick has just been rejected
\* after an accepted one and its request replaced
Wit_C18 ==
  /\ Len(promises) = 1 /\ pc = "idle" /\ lastOp = <<"next", 0>>
  /\ lastAccept # -1 /\ now > lastAccept /\ ~resetSince
  /\ progress > 0 /\ progress < One /\ Len(frames) = 1
  /\ \E c \in UserClosures : closures[c].calls = 1

\* an accepted tick that follows an accepted tick of the same run
TicksOn == pc = "idle" /\ pc' = "notify" /\ lastProgress # -1 /\ lastProgress < One

\* C14: the progress an accepted tick stores and reports is at least the
\* progress of the accepted tick before it, whatever was called in between.
Cex_C14 ==
  [][ TicksOn => (progress' >= lastProgress /\ nextState'.progress >= lastProgress)
    ]_vars

\* C14, amended: the same when neither reset() nor resetAll() was called
\* between the two ticks.
Thm_C14 ==
  [][ (TicksOn /\ ~resetSince)
        => (progress' >= lastProgress /\ nextState'.progress >= lastProgress)
    ]_vars

\* the third accepted tick of a run is being notified, with a closure of the
\* user called and no reset since the second
Wit_C14 ==
  /\ pc = "notify" /\ Len(promises) = 1 /\ time = 3 * interval
  /\ progress = One /\ lastProgress = One /\ ~resetSince
  /\ \E c \in UserClosures : closures[c].calls = 1

\* C15: reset() zeroes time, progress and lastTick, reloads interval, rate
\* and the update function from the constructor's argument (1/180, 60 and
\* DEFAULT_FUNC for the fields it leaves out) and leaves every slot of the
\* registry as it was.
Thm_C15 ==
  [][ lastOp' = <<"reset", 0>> =>
        /\ time' = 0 /\ progress' = 0 /\ lastTick' = 0
        /\ interval' = IF args.interval = Undefined THEN Den \div 180
                       ELSE args.interval[1]
        /\ rate' = IF args.rate = Undefined THEN 60 ELSE args.rate[1]
        /\ func' = IF args.func # Undefined THEN args.func[1]
                   ELSE IF args.function # Undefined THEN args.function[1]
                   ELSE "default"
        /\ listeners' = listeners
    ]_vars

\* reset() has just been called on an iterator built without arguments,
\* after an accepted tick, with a callback of the user in the registry
Wit_C15 ==
  /\ lastOp = <<"reset", 0>> /\ args.interval = Undefined /\ args.rate = Undefined
  /\ lastAccept # -1 /\ time = 0 /\ interval = 1 /\ rate = 60 /\ func = "default"
  /\ \E i \in 1..Len(listeners) : listeners[i] \in UserClosures

\* the closures of the user that were called
Called == {c \in UserClosures : closures[c].calls = 1}

\* N callbacks were subscribed to the empty registry, none into a reused
\* slot, and the closure of one of them was called
OneRemoved ==
  /\ Cardinality(Called) = 1
  /\ Cardinality({closures[c].index : c \in UserClosures})
       = Cardinality(UserClosures)

\* what the callbacks of the user have been handed in the pass so far
UserLog == SelectSeq(passLog, LAMBDA id : id \in UserClosures)

\* 1..n without r, ascending
Without(n, r) == [j \in 1..(n-1) |-> IF j < r THEN j ELSE j + 1]

\* C12: after N subscriptions to an empty registry and a call of the k-th
\* closure, N-1 slots are occupied, by the other callbacks in their places,
\* and an accepted tick hands the state to those N-1 once each in their
\* order of subscription and not to the k-th.
Thm_C12 ==
  OneRemoved =>
    LET n == Cardinality(UserClosures)
        r == CHOOSE c \in Called : TRUE
    IN /\ \A c \in 1..n :
            IF c = r THEN SlotAt(listeners, c) \notin UserClosures
            ELSE SlotAt(listeners, c) = c
       /\ promises = <<>> =>
            Cardinality({i \in 1..Len(listeners) : listeners[i] # 0}) = n - 1
       /\ PassDone => UserLog = Without(n, r)

\* a pass has ended after the second of three callbacks was unsubscribed
Wit_C12 ==
  /\ OneRemoved /\ PassDone /\ Cardinality(UserClosures) = 3
  /\ Called = {2} /\ UserLog = <<1, 3>>

\* The registry before the first start(), read off the subscriptions of the
\* user (in the demo's way of calling they all precede the first start() and
\* each closure is called at most once).
MaxOf(S) == IF S = {} THEN 0 ELSE CHOOSE x \in S : \A y \in S : y <= x
Kept == UserClosures \ Called
BeforeLen == MaxOf({closures[c].index : c \in UserClosures})
BeforeOccupied == {closures[c].index : c \in Kept}
Occupied == {i \in 1..Len(listeners) : listeners[i] # 0}

\* the completion listener of the last start() is in the registry
OneShotRegistered ==
  \E i \in Occupied : closures[listeners[i]].owner = Len(promises)

\* C19: after every start-to-completion cycle the occupied slots and the
\* length of the registry are what they were before the first start().
Cex_C19 ==
  CycleDone => (Occupied = BeforeOccupied /\ Len(listeners) = BeforeLen)

\* C19, amended: the completion listener is registered from start() until
\* its promise is fulfilled; after every cycle the occupied slots are the
\* ones occupied before the first start(), by the same callbacks, and the
\* registry is as long as before when it had a hole then and one slot longer
\* when it had none.
Thm_C19 ==
  /\ (promises # <<>> /\ promises[Len(promises)].resolves = 0)
       => OneShotRegistered
  /\ CycleDone =>
       /\ Occupied = BeforeOccupied
       /\ \A i \in Occupied : listeners[i] \in Kept /\ closures[listeners[i]].index = i
       /\ Len(listeners) = IF BeforeOccupied # 1..BeforeLen THEN BeforeLen
                           ELSE BeforeLen + 1

\* two cycles have completed with a callback of the user subscribed and no
\* hole in the registry before the first
Wit_C19 ==
  /\ CycleDone /\ Len(promises) = 2 /\ promises[1].resolves = 1
  /\ Kept # {} /\ BeforeOccupied = 1..BeforeLen
  /\ Len(listeners) = BeforeLen + 1

Returned == result.kind = "record"
Threw == result = FormatError

\* C16: for a text rgba(r,g,b,a) with numbers of one to three digits the
\* call returns the record of those four numbers.
Cex_C16 ==
  \A c \in Numbers :
    ( /\ Len(c) = 4 /\ \A i \in 1..4 : Len(c[i]) \in 1..3
      /\ color = CallText(<<"r", "g", "b", "a">>, c, <<",">>)
      /\ result # NotCalled )
    => result = [kind |-> "record",
                 r |-> DigitsValue(c[1], Digits), g |-> DigitsValue(c[2], Digits),
                 b |-> DigitsValue(c[3], Digits), a |-> <<DigitsValue(c[4], Digits)>>]

\* the whole of str is  name(n, n, n)  or  name(n, n, n, n): numbers of one
\* to three digits, an optional space around the commas and parentheses
RECURSIVE NumbersEnd(_, _, _)
NumbersEnd(str, p, count) ==
  IF count = 1 THEN OptSpace(str, Group(str, p))
  ELSE NumbersEnd(str, SpacedComma(str, Group(str, p)), count - 1)

IsCall(str, name, count) ==
  /\ Len(str) > Len(name) /\ SubSeq(str, 1, Len(name)) = name
  /\ Lit(str, NumbersEnd(str, Lit(str, OptSpace(str, Len(name) + 1), "("), count),
         ")") = Len(str) + 1

\* one of the three formats, whatever its case and the white space around it
IsColor(str) ==
  LET text == trim(toLowerCase(str))
  IN \/ IsCall(text, <<"r", "g", "b">>, 3)
     \/ IsCall(text, <<"r", "g", "b", "a">>, 4)
     \/ IsHex(text)

\* C17: the call returns a record only for a text in one of the three
\* formats and throws the format error for every other text.
Cex_C17 ==
  /\ Returned => IsColor(color)
  /\ (result # NotCalled /\ ~IsColor(color)) => Threw

\* C20: for a text that is a 6-digit hex colour once lower-cased and
\* trimmed, the call returns the channels it returns for the lower-cased,
\* trimmed text.
Cex_C20 ==
  (result # NotCalled /\ IsHex(trim(toLowerCase(color))))
    => /\ Returned
       /\ result = extractColorAsRgb(trim(toLowerCase(color)))
       /\ NaN \notin {result.r, result.g, result.b}

====
